---- MODULE Spec2Model ----
(***************************************************************************)
(* Low-side / high-side reconciliation engine of syft/client/syncing.py:   *)
(* the structural diff primitives (get_diff_dict, get_diff_list), the      *)
(* per-category comparators get_diff_request .. get_diff_action_object,    *)
(* the dispatch table func_dict,                                            *)
(* the merge classifier (get_merge_state, State.add_obj) and the derived   *)
(* query State.objs_to_sync.                                               *)
(*                                                                         *)
(* Python values are modelled as follows.  A SyftObject is a record        *)
(* [cat, id, attrs]: its class name, its id and its attributes by name.    *)
(* None is the record NoneObj.  A Python list is a sequence; Python list   *)
(* indices are 0-based and are kept 0-based wherever the code stores them. *)
(* A call that raises yields a record with raised = TRUE and the           *)
(* exception in exc.                                                       *)
(***************************************************************************)
EXTENDS Integers, Sequences, FiniteSets, TLC

VARIABLES
    diff_to_sync,   \* State.diff_to_sync: the list of Diff objects
    outcome,        \* how the last call on the State ended
    objs,           \* what State.objs_to_sync returned, if it was the last call
    pair,           \* the (low_obj, high_obj) arguments under classification
    merge,          \* what get_merge_state returned for pair
    prim,           \* the last call of a structural diff primitive
    low_side_client,    \* the low side's collections, by class
    high_side_client,   \* the high side's collections, by class
    sync,           \* where the call of get_sync_state stands
    compared        \* the last direct call of a comparator on pair

vars == <<diff_to_sync, outcome, objs, pair, merge, prim,
          low_side_client, high_side_client, sync, compared>>

\* the state of a reconciliation pass
pass == <<low_side_client, high_side_client, sync>>

----------------------------------------------------------------------------
(* Bounds of the model *)

MaxId == 2        \* identities are 1..MaxId
MaxVal == 1       \* opaque attribute values are 0..MaxVal
MaxLen == 2       \* longest list held by a list-valued attribute
MaxDiffs == 2     \* longest diff_to_sync explored
SampleAttr == 1   \* the attribute that varies in the records fed to Spec
MaxKeys == 3      \* dict keys are 1..MaxKeys
MaxList == 3      \* longest list fed to get_diff_list
MaxRecords == 3   \* most records held by the two sides together

Ids == 1..MaxId
Vals == 0..MaxVal
Keys == 1..MaxKeys

\* every list over S of length at most n
SeqsUpTo(S, n) == UNION {[1..k -> S] : k \in 0..n}

----------------------------------------------------------------------------
(* Python values *)

NoneObj == [cat |-> "NoneType"]
IsNone(obj) == obj.cat = "NoneType"

\* the str "Error" that Diff.get_obj and get_merge_state use as a sentinel
ErrorStr == [cat |-> "str", string |-> "Error"]

\* range(a, b) as a list
range(a, b) == [k \in 1..(IF b > a THEN b - a ELSE 0) |-> a + k - 1]

\* the exceptions the engine raises
BothNoneError == "Exception: Both objects are None"
NotSameIdError == "Exception: Not the same id for low side and high side requests"
NoneNotCallable == "TypeError: 'NoneType' object is not callable"
RaiseNotImplemented == "TypeError: exceptions must derive from BaseException"

Raise(e) == [raised |-> TRUE, exc |-> e]
Return(v) == [raised |-> FALSE, value |-> v]

----------------------------------------------------------------------------
(* Attribute lists of the comparators *)

request_basic_attrs ==
    << "requesting_user_name", "requesting_user_email",
       "requesting_user_institution", "approving_user_verify_key",
       "request_time", "updated_at", "request_hash" >>

user_code_basic_attrs ==
    << "raw_code", "input_policy_type", "input_policy_init_kwargs",
       "input_policy_state", "output_policy_type",
       "output_policy_init_kwargs", "output_policy_state", "parsed_code",
       "service_func_name", "unique_func_name", "user_unique_func_name",
       "code_hash", "signature", "input_kwargs", "submit_time",
       "uses_domain", "worker_pool_name" >>

log_basic_attrs == << "stdout", "stderr" >>

job_basic_attrs ==
    << "result", "resolved", "status", "log_id", "parent_job_id", "n_iters",
       "current_iter", "creation_time", "job_pid", "job_worker_id",
       "updated_at", "user_code_id" >>

action_object_basic_attrs ==
    << "__attr_searchable__", "syft_action_data_cache",
       "syft_blob_storage_entry_id", "syft_pointer_type",
       "syft_parent_hashes", "syft_parent_op", "syft_parent_args",
       "syft_parent_kwargs", "syft_history_hash", "syft_internal_type",
       "syft_node_uid", "_syft_pre_hooks__", "_syft_post_hooks__",
       "syft_twin_type", "syft_action_data_type", "syft_action_data_repr_",
       "syft_action_data_str_", "syft_has_bool_attr", "syft_resolve_data",
       "syft_created_at", "syft_resolved" >>

\* only_attr_dict; None is the empty list here, it is never iterated
only_attr_dict ==
    [ SyftLog |-> << "stdout", "stderr" >>,
      Job |-> << "result", "resolved", "status", "log_id", "parent_job_id",
                 "n_iters", "current_iter", "creation_time", "updated_at",
                 "user_code_id" >>,
      UserCode |-> << "raw_code", "input_policy_type",
                      "input_policy_init_kwargs", "input_policy_state",
                      "output_policy_type", "output_policy_init_kwargs",
                      "output_policy_state", "parsed_code", "status",
                      "submit_time", "nested_codes" >>,
      Request |-> << "requesting_user_name", "requesting_user_email",
                     "requesting_user_institution", "request_time",
                     "updated_at", "request_hash", "changes", "history" >>,
      Project |-> << >>,
      ActionObject |-> << >> ]

----------------------------------------------------------------------------
(* Records *)

\* the classes get_type recognises, in the order it tests them
SupportedTypes ==
    << "Project", "Request", "UserCode", "Job", "SyftLog", "ActionObject" >>

\* a SyftObject class get_type does not recognise
SyftString == "SyftString"

Categories == {SupportedTypes[i] : i \in 1..Len(SupportedTypes)} \cup {SyftString}

\* the attributes of a record that the engine reads, by class: the
\* comparator's list, then the remaining names of only_attr_dict
AttrSeq(cat) ==
    CASE cat = "Request" -> request_basic_attrs \o << "changes", "history" >>
      [] cat = "UserCode" -> user_code_basic_attrs \o << "status", "nested_codes" >>
      [] cat = "Job" -> job_basic_attrs
      [] cat = "SyftLog" -> log_basic_attrs
      [] cat = "ActionObject" -> action_object_basic_attrs
      [] cat = "Project" -> << >>
      [] cat = SyftString -> << "string" >>

AttrNames(cat) == {AttrSeq(cat)[i] : i \in 1..Len(AttrSeq(cat))}

IsListAttr(cat, a) == cat = "Request" /\ a \in {"changes", "history"}

\* UserCode.status is a collection object; it is modelled by
\* list(status.status_dict.values()), which is never empty
IsStatusAttr(cat, a) == cat = "UserCode" /\ a = "status"

\* Job.result holds an ActionDataEmpty or the ActionObject of the result
IsResultAttr(cat, a) == cat = "Job" /\ a = "result"

\* an instance of ActionDataEmpty
EmptyData == [cat |-> "ActionDataEmpty"]
IsActionDataEmpty(obj) == obj.cat = "ActionDataEmpty"

\* the ActionObject with identity i
ResultObject(i) ==
    [cat |-> "ActionObject", id |-> i,
     attrs |-> [a \in {action_object_basic_attrs[k] :
                         k \in 1..Len(action_object_basic_attrs)} |-> 0]]

AttrVals(cat, a) ==
    IF IsListAttr(cat, a) THEN SeqsUpTo(Vals, MaxLen)
    ELSE IF IsStatusAttr(cat, a) THEN SeqsUpTo(Vals, MaxLen) \ {<< >>}
    ELSE IF IsResultAttr(cat, a) THEN {EmptyData} \cup {ResultObject(i) : i \in Ids}
    ELSE Vals

DefaultVal(cat, a) ==
    IF IsListAttr(cat, a) THEN << >>
    ELSE IF IsStatusAttr(cat, a) THEN << 0 >>
    ELSE IF IsResultAttr(cat, a) THEN EmptyData
    ELSE 0

BaseAttrs(cat) == [a \in AttrNames(cat) |-> DefaultVal(cat, a)]

\* a value of attribute a other than its default
ChangedVal(cat, a) ==
    IF IsListAttr(cat, a) \/ IsStatusAttr(cat, a) THEN << MaxVal >>
    ELSE IF IsResultAttr(cat, a) THEN ResultObject(MaxId)
    ELSE MaxVal

\* the attribute valuations explored: the default one and every change of
\* one attribute
Variants(cat) ==
    {BaseAttrs(cat)} \cup
    UNION { { [BaseAttrs(cat) EXCEPT ![a] = v] : v \in AttrVals(cat, a) } :
            a \in AttrNames(cat) }

\* every record of the model
AllRecords(cat) ==
    { [cat |-> cat, id |-> i, attrs |-> f] : i \in Ids, f \in Variants(cat) }

\* the records fed to Spec: the first or the last identity with every
\* attribute at its default, and the first identity with attribute number
\* SampleAttr of the class changed
SampleRecords(cat) ==
    { [cat |-> cat, id |-> i, attrs |-> BaseAttrs(cat)] : i \in {1, MaxId} }
    \cup { [cat |-> cat, id |-> 1,
            attrs |-> [BaseAttrs(cat) EXCEPT ![AttrSeq(cat)[j]] =
                                                ChangedVal(cat, AttrSeq(cat)[j])]] :
              j \in {SampleAttr} \cap DOMAIN AttrSeq(cat) }

Optional(S) == S \cup {NoneObj}

getattr(obj, a) == obj.attrs[a]

----------------------------------------------------------------------------
(* Structural diff primitives *)

\* get_diff_list with the two branches of the length test exchanged
get_diff_list_branches_swapped(low_list, high_list) ==
    LET new_low_ids ==
            IF Len(low_list) # Len(high_list) /\ Len(low_list) < Len(high_list)
            THEN range(Len(low_list), Len(high_list)) ELSE << >>
        new_high_ids ==
            IF Len(low_list) # Len(high_list) /\ ~(Len(low_list) < Len(high_list))
            THEN range(Len(high_list), Len(low_list)) ELSE << >>
        common_length ==
            IF Len(low_list) > Len(high_list) THEN Len(high_list) ELSE Len(low_list)
        diff_ids[n \in 0..common_length] ==
            IF n = 0 THEN << >>
            ELSE IF low_list[n] # high_list[n]
                 THEN Append(diff_ids[n - 1], n - 1)
                 ELSE diff_ids[n - 1]
    IN  << diff_ids[common_length], new_low_ids, new_high_ids >>

\* get_diff_list: the tuple (diff_ids, new_low_ids, new_high_ids)
get_diff_list(low_list, high_list) ==
    LET new_low_ids ==
            IF Len(low_list) # Len(high_list) /\ Len(low_list) > Len(high_list)
            THEN range(Len(high_list), Len(low_list)) ELSE << >>
        new_high_ids ==
            IF Len(low_list) # Len(high_list) /\ ~(Len(low_list) > Len(high_list))
            THEN range(Len(low_list), Len(high_list)) ELSE << >>
        common_length ==
            IF Len(low_list) # Len(high_list)
            THEN IF Len(low_list) > Len(high_list)
                 THEN Len(high_list) ELSE Len(low_list)
            ELSE Len(low_list)
        \* diff_ids after the iterations i = 0 .. n-1 of the for loop
        diff_ids[n \in 0..common_length] ==
            IF n = 0 THEN << >>
            ELSE IF low_list[n] # high_list[n]
                 THEN Append(diff_ids[n - 1], n - 1)
                 ELSE diff_ids[n - 1]
    IN  << diff_ids[common_length], new_low_ids, new_high_ids >>

\* dict.keys()
keys(d) == DOMAIN d

\* list(s) or "for key in s" over a Python set s: its elements in the
\* order in which this run iterates them; iter lists every key once
listing(s, iter) == SelectSeq(iter, LAMBDA k : k \in s)

\* get_diff_dict without the set difference for new_high_keys
get_diff_dict_all_high_keys(low_dict, high_dict, iter) ==
    LET common_keys == listing(keys(low_dict) \cap keys(high_dict), iter)
        diff_keys[n \in 0..Len(common_keys)] ==
            IF n = 0 THEN << >>
            ELSE IF low_dict[common_keys[n]] # high_dict[common_keys[n]]
                 THEN Append(diff_keys[n - 1], common_keys[n])
                 ELSE diff_keys[n - 1]
    IN  << diff_keys[Len(common_keys)],
           listing(keys(low_dict) \ keys(high_dict), iter),
           listing(keys(high_dict), iter) >>

\* get_diff_dict under the set iteration order iter: the tuple
\* (diff_keys, new_low_keys, new_high_keys)
get_diff_dict(low_dict, high_dict, iter) ==
    LET low_dict_keys == keys(low_dict)
        high_dict_keys == keys(high_dict)
        common_keys == listing(low_dict_keys \cap high_dict_keys, iter)
        new_low_keys == low_dict_keys \ high_dict_keys
        new_high_keys == high_dict_keys \ low_dict_keys
        diff_keys[n \in 0..Len(common_keys)] ==
            IF n = 0 THEN << >>
            ELSE IF low_dict[common_keys[n]] # high_dict[common_keys[n]]
                 THEN Append(diff_keys[n - 1], common_keys[n])
                 ELSE diff_keys[n - 1]
    IN  << diff_keys[Len(common_keys)],
           listing(new_low_keys, iter), listing(new_high_keys, iter) >>

----------------------------------------------------------------------------
(* Record comparators *)

DiffAttr(attr, low_attr, high_attr) ==
    [attr_name |-> attr, low_attr |-> low_attr, high_attr |-> high_attr]

DiffList(attr, low_attr, high_attr, ids) ==
    [attr_name |-> attr, low_attr |-> low_attr, high_attr |-> high_attr,
     diff_ids |-> ids[1], new_low_ids |-> ids[2], new_high_ids |-> ids[3]]

\* the loop "for attr in basic_attrs" shared by the five comparators
basic_attr_diffs(basic_attrs, low_obj, high_obj) ==
    LET diff_attrs[n \in 0..Len(basic_attrs)] ==
            IF n = 0 THEN << >>
            ELSE IF getattr(low_obj, basic_attrs[n]) # getattr(high_obj, basic_attrs[n])
                 THEN Append(diff_attrs[n - 1],
                             DiffAttr(basic_attrs[n],
                                      getattr(low_obj, basic_attrs[n]),
                                      getattr(high_obj, basic_attrs[n])))
                 ELSE diff_attrs[n - 1]
    IN  diff_attrs[Len(basic_attrs)]

\* the same looking at the changed indices only
list_attr_diff_changed_only(attr_name, low_attr, high_attr) ==
    LET ids == get_diff_list(low_attr, high_attr)
    IN  IF Len(ids[1]) # 0
        THEN << DiffList(attr_name, low_attr, high_attr, ids) >>
        ELSE << >>

\* "for l in change_diffs: if len(l) != 0: ... break"
list_attr_diff(attr_name, low_attr, high_attr) ==
    LET ids == get_diff_list(low_attr, high_attr)
    IN  IF \E k \in 1..3 : Len(ids[k]) # 0
        THEN << DiffList(attr_name, low_attr, high_attr, ids) >>
        ELSE << >>

get_diff_request(low_request, high_request) ==
    IF low_request.id # high_request.id THEN Raise(NotSameIdError)
    ELSE Return(basic_attr_diffs(request_basic_attrs, low_request, high_request)
                \o list_attr_diff("change", getattr(low_request, "changes"),
                                  getattr(high_request, "changes"))
                \o list_attr_diff("history", getattr(low_request, "history"),
                                  getattr(high_request, "history")))

\* get_diff_user_code testing the whole status_dict for a difference
get_diff_user_code_whole_status(low_code, high_code) ==
    IF low_code.id # high_code.id THEN Raise(NotSameIdError)
    ELSE LET low_status == getattr(low_code, "status")[1]
             high_status == getattr(high_code, "status")[1]
         IN  Return(basic_attr_diffs(user_code_basic_attrs, low_code, high_code)
                    \o (IF getattr(low_code, "status") # getattr(high_code, "status")
                        THEN << DiffAttr("status", low_status, high_status) >>
                        ELSE << >>))

get_diff_user_code(low_code, high_code) ==
    IF low_code.id # high_code.id THEN Raise(NotSameIdError)
    ELSE LET low_status == getattr(low_code, "status")[1]
             high_status == getattr(high_code, "status")[1]
         IN  Return(basic_attr_diffs(user_code_basic_attrs, low_code, high_code)
                    \o (IF low_status # high_status
                        THEN << DiffAttr("status", low_status, high_status) >>
                        ELSE << >>))

get_diff_log(low_log, high_log) ==
    IF low_log.id # high_log.id THEN Raise(NotSameIdError)
    ELSE Return(basic_attr_diffs(log_basic_attrs, low_log, high_log))

get_diff_job(low_job, high_job) ==
    IF low_job.id # high_job.id THEN Raise(NotSameIdError)
    ELSE Return(basic_attr_diffs(job_basic_attrs, low_job, high_job))

get_diff_action_object(low_action_object, high_action_object) ==
    IF low_action_object.id # high_action_object.id THEN Raise(NotSameIdError)
    ELSE Return(basic_attr_diffs(action_object_basic_attrs,
                                 low_action_object, high_action_object))

\* func_dict.get(name, None): the name of the registered comparator
func_dict(name) ==
    CASE name = "SyftLog" -> "get_diff_log"
      [] name = "Job" -> "get_diff_job"
      [] name = "UserCode" -> "get_diff_user_code"
      [] name = "Request" -> "get_diff_request"
      [] name = "Project" -> "None"
      [] name = "ActionObject" -> "None"
      [] OTHER -> "None"

\* override_func(low_obj, high_obj) where a missing comparator finds no
\* difference
call_skipping_none(override_func, low_obj, high_obj) ==
    CASE override_func = "get_diff_log" -> get_diff_log(low_obj, high_obj)
      [] override_func = "get_diff_job" -> get_diff_job(low_obj, high_obj)
      [] override_func = "get_diff_user_code" -> get_diff_user_code(low_obj, high_obj)
      [] override_func = "get_diff_request" -> get_diff_request(low_obj, high_obj)
      [] override_func = "get_diff_action_object" ->
            get_diff_action_object(low_obj, high_obj)
      [] OTHER -> Return(<< >>)

\* override_func(low_obj, high_obj)
call(override_func, low_obj, high_obj) ==
    CASE override_func = "get_diff_log" -> get_diff_log(low_obj, high_obj)
      [] override_func = "get_diff_job" -> get_diff_job(low_obj, high_obj)
      [] override_func = "get_diff_user_code" -> get_diff_user_code(low_obj, high_obj)
      [] override_func = "get_diff_request" -> get_diff_request(low_obj, high_obj)
      [] override_func = "get_diff_action_object" ->
            get_diff_action_object(low_obj, high_obj)
      [] OTHER -> Raise(NoneNotCallable)

----------------------------------------------------------------------------
(* Diff and the merge classifier *)

Diff(low_obj, high_obj, obj_type, merge_state, diff_list) ==
    [low_obj |-> low_obj, high_obj |-> high_obj, obj_type |-> obj_type,
     merge_state |-> merge_state, diff_list |-> diff_list]

\* Diff.get_obj always taking the high side of a NEW Diff
get_obj_high_side(diff) ==
    IF diff.merge_state = "NEW" THEN diff.high_obj ELSE ErrorStr

\* Diff.get_obj
get_obj(diff) ==
    IF diff.merge_state = "NEW"
    THEN IF ~IsNone(diff.low_obj) THEN diff.low_obj ELSE diff.high_obj
    ELSE ErrorStr

\* get_type without its last isinstance test
get_type_without_last_test(obj) ==
    IF \E i \in 1..(Len(SupportedTypes) - 1) : obj.cat = SupportedTypes[i]
    THEN Return(obj.cat)
    ELSE Raise(RaiseNotImplemented)

\* get_type: the isinstance chain, then "raise NotImplemented"
get_type(obj) ==
    IF \E i \in 1..Len(SupportedTypes) : obj.cat = SupportedTypes[i]
    THEN Return(obj.cat)
    ELSE Raise(RaiseNotImplemented)

\* get_merge_state; obj_type is a class, named by its __name__
get_merge_state(low_obj, high_obj, obj_type) ==
    IF IsNone(low_obj) /\ IsNone(high_obj) THEN Return("Error")
    ELSE IF IsNone(low_obj) \/ IsNone(high_obj) THEN Return("NEW")
    ELSE LET override_func == func_dict(obj_type)
             diffs == call(override_func, low_obj, high_obj)
         IN  IF override_func # "None"
             THEN IF diffs.raised THEN diffs
                  ELSE IF Len(diffs.value) = 0 THEN Return("SAME")
                  ELSE Return("DIFF")
             ELSE Return("DIFF")

\* the one-sided Diff labelled DIFF
new_diff_labelled_diff(low_obj, high_obj, obj_type) ==
    Diff(low_obj, high_obj, obj_type, "DIFF", << >>)

\* the Diff that add_obj builds when exactly one side is None
new_diff(low_obj, high_obj, obj_type) ==
    Diff(low_obj, high_obj, obj_type, "NEW", << >>)

\* the two merge states exchanged
merge_state_of_swapped(diff_list) ==
    IF Len(diff_list) = 0 THEN "DIFF" ELSE "SAME"

\* the merge_state add_obj derives from the comparator's diff_list
merge_state_of(diff_list) ==
    IF Len(diff_list) = 0 THEN "SAME" ELSE "DIFF"

\* the Diff that add_obj builds when both sides are present
both_diff(low_obj, high_obj, obj_type, diff_list) ==
    Diff(low_obj, high_obj, obj_type, merge_state_of(diff_list), diff_list)

\* State.add_obj appending the Diff before the comparator is called
add_obj_appending_first(state, low_obj, high_obj) ==
    IF IsNone(low_obj) /\ IsNone(high_obj)
    THEN [raised |-> TRUE, exc |-> BothNoneError, invoked |-> "None",
          value |-> state]
    ELSE
    LET obj_type == get_type(IF ~IsNone(low_obj) THEN low_obj ELSE high_obj)
    IN  IF obj_type.raised
        THEN [raised |-> TRUE, exc |-> obj_type.exc, invoked |-> "None",
              value |-> state]
        ELSE IF IsNone(low_obj) \/ IsNone(high_obj)
        THEN [raised |-> FALSE, exc |-> "", invoked |-> "None",
              value |-> Append(state, new_diff(low_obj, high_obj, obj_type.value))]
        ELSE
        LET override_func == func_dict(obj_type.value)
            diff_list == call(override_func, low_obj, high_obj)
        IN  IF diff_list.raised
            THEN [raised |-> TRUE, exc |-> diff_list.exc,
                  invoked |-> override_func,
                  value |-> Append(state, both_diff(low_obj, high_obj,
                                                    obj_type.value, << >>))]
            ELSE [raised |-> FALSE, exc |-> "", invoked |-> override_func,
                  value |-> Append(state, both_diff(low_obj, high_obj,
                                                    obj_type.value, diff_list.value))]

\* State.add_obj on the list state: value is the list after the call,
\* raised and exc tell whether and what it raised, invoked names the
\* comparator that was called, "None" when none was
add_obj(state, low_obj, high_obj) ==
    IF IsNone(low_obj) /\ IsNone(high_obj)
    THEN [raised |-> TRUE, exc |-> BothNoneError, invoked |-> "None",
          value |-> state]
    ELSE
    LET obj_type == get_type(IF ~IsNone(low_obj) THEN low_obj ELSE high_obj)
    IN  IF obj_type.raised
        THEN [raised |-> TRUE, exc |-> obj_type.exc, invoked |-> "None",
              value |-> state]
        ELSE IF IsNone(low_obj) \/ IsNone(high_obj)
        THEN [raised |-> FALSE, exc |-> "", invoked |-> "None",
              value |-> Append(state, new_diff(low_obj, high_obj, obj_type.value))]
        ELSE
        LET override_func == func_dict(obj_type.value)
            diff_list == call(override_func, low_obj, high_obj)
        IN  IF diff_list.raised
            THEN [raised |-> TRUE, exc |-> diff_list.exc,
                  invoked |-> override_func, value |-> state]
            ELSE [raised |-> FALSE, exc |-> "", invoked |-> override_func,
                  value |-> Append(state, both_diff(low_obj, high_obj,
                                                    obj_type.value, diff_list.value))]

\* State.objs_to_sync on the list state
objs_to_sync(state) ==
    LET objs_[n \in 0..Len(state)] ==
            IF n = 0 THEN << >>
            ELSE IF state[n].merge_state = "NEW"
                 THEN Append(objs_[n - 1], get_obj(state[n]))
                 ELSE objs_[n - 1]
    IN  objs_[Len(state)]

----------------------------------------------------------------------------
(* The state machine *)

NotCalled == [status |-> "not called", fn |-> "None"]

\* the classes get_sync_state reconciles, in the order it does
SyncTypes == << "Project", "Request", "UserCode", "Job", "SyftLog" >>

\* two sides that hold nothing
NoRecords == [cat \in {SyncTypes[i] : i \in 1..Len(SyncTypes)} |-> << >>]
NoPair == [low |-> NoneObj, high |-> NoneObj, drawn |-> FALSE]

\* how a call that produced r ended: normally or with which exception, and
\* for add_obj after calling which comparator
Ended(r) ==
    [status |-> IF r.raised THEN "raised" ELSE "returned",
     exc |-> IF r.raised THEN r.exc ELSE "",
     invoked |-> r.invoked]

\* whether a call that produced r returned or raised
Status(r) == [status |-> IF r.raised THEN "raised" ELSE "returned"]

\* a State() just constructed, nothing called yet
Init ==
    /\ diff_to_sync = << >>
    /\ outcome = NotCalled
    /\ objs = NotCalled
    /\ pair = NoPair
    /\ merge = NotCalled
    /\ prim = NotCalled
    /\ low_side_client = NoRecords
    /\ high_side_client = NoRecords
    /\ sync = NotCalled
    /\ compared = NotCalled

\* sync_state.add_obj(low_obj, high_obj) with comparators that keep adding to
\* one diff_attrs list from call to call
AddObj_sharing_diff_attrs ==
    /\ Len(diff_to_sync) < MaxDiffs
    /\ \E cat \in Categories :
       \E low_obj \in Optional(SampleRecords(cat)),
          high_obj \in Optional(SampleRecords(cat)) :
         LET r == add_obj(diff_to_sync, low_obj, high_obj)
             n == Len(diff_to_sync)
         IN  /\ diff_to_sync' =
                  IF r.raised \/ n = 0 THEN r.value
                  ELSE [r.value EXCEPT ![n + 1].diff_list =
                                          diff_to_sync[n].diff_list \o @]
             /\ outcome' = Status(r)
    /\ objs' = NotCalled
    /\ UNCHANGED <<pair, merge, prim, pass, compared>>

\* sync_state.add_obj(low_obj, high_obj)
AddObj ==
    /\ Len(diff_to_sync) < MaxDiffs
    /\ \E cat \in Categories :
       \E low_obj \in Optional(SampleRecords(cat)),
          high_obj \in Optional(SampleRecords(cat)) :
         LET r == add_obj(diff_to_sync, low_obj, high_obj)
         IN  /\ diff_to_sync' = r.value
             /\ outcome' = Status(r)
    /\ objs' = NotCalled
    /\ UNCHANGED <<pair, merge, prim, pass, compared>>

\* sync_state.objs_to_sync()
ObjsToSync ==
    /\ objs' = [status |-> "returned", value |-> objs_to_sync(diff_to_sync)]
    /\ outcome' = Status(Return(objs'.value))
    /\ UNCHANGED <<diff_to_sync, pair, merge, prim, pass, compared>>

Next == AddObj \/ ObjsToSync

Spec == Init /\ [][Next]_vars

----------------------------------------------------------------------------
(* Classification of one pair of optional records of one class, over every *)
(* record of the model                                                     *)

InitPair ==
    /\ diff_to_sync = << >>
    /\ outcome = NotCalled
    /\ objs = NotCalled
    /\ \E cat \in Categories :
       \E low_obj \in Optional(AllRecords(cat)),
          high_obj \in Optional(AllRecords(cat)) :
         pair = [low |-> low_obj, high |-> high_obj, drawn |-> TRUE]
    /\ merge = NotCalled
    /\ prim = NotCalled
    /\ low_side_client = NoRecords
    /\ high_side_client = NoRecords
    /\ sync = NotCalled
    /\ compared = NotCalled

\* State().add_obj(pair.low, pair.high)
Classify ==
    /\ outcome = NotCalled
    /\ LET r == add_obj(diff_to_sync, pair.low, pair.high)
       IN  /\ diff_to_sync' = r.value
           /\ outcome' = Ended(r)
    /\ UNCHANGED <<objs, pair, merge, prim, pass, compared>>

\* get_merge_state(pair.low, pair.high, obj_type), obj_type being the class
\* of the records when there is one
GetMergeState ==
    /\ merge = NotCalled
    /\ \E i \in 1..Len(SupportedTypes) :
         /\ \A obj \in {pair.low, pair.high} :
               IsNone(obj) \/ obj.cat = SupportedTypes[i]
         /\ LET r == get_merge_state(pair.low, pair.high, SupportedTypes[i])
            IN  merge' = [status |-> IF r.raised THEN "raised" ELSE "returned",
                          exc |-> IF r.raised THEN r.exc ELSE "",
                          value |-> IF r.raised THEN "" ELSE r.value]
    /\ UNCHANGED <<diff_to_sync, outcome, objs, pair, prim, pass, compared>>

\* the comparators and the class each is written for
Comparators ==
    << [fn |-> "get_diff_request", type |-> "Request"],
       [fn |-> "get_diff_user_code", type |-> "UserCode"],
       [fn |-> "get_diff_log", type |-> "SyftLog"],
       [fn |-> "get_diff_job", type |-> "Job"],
       [fn |-> "get_diff_action_object", type |-> "ActionObject"] >>

\* get_diff_<class>(pair.low, pair.high), on two records of that class
Compare ==
    /\ compared = NotCalled
    /\ ~IsNone(pair.low) /\ ~IsNone(pair.high)
    /\ \E i \in 1..Len(Comparators) :
         /\ pair.low.cat = Comparators[i].type
         /\ LET r == call(Comparators[i].fn, pair.low, pair.high)
            IN  compared' = [status |-> IF r.raised THEN "raised" ELSE "returned",
                             fn |-> Comparators[i].fn,
                             exc |-> IF r.raised THEN r.exc ELSE "",
                             value |-> IF r.raised THEN << >> ELSE r.value]
    /\ UNCHANGED <<diff_to_sync, outcome, objs, pair, merge, prim, pass>>

NextPair == Classify \/ GetMergeState \/ Compare

SpecPair == InitPair /\ [][NextPair]_vars

----------------------------------------------------------------------------
(* Calls of the structural diff primitives *)

Lists == SeqsUpTo(Vals, MaxList)
Dicts == UNION { [K -> Vals] : K \in SUBSET Keys }
IterOrders == { f \in [1..MaxKeys -> Keys] : \A k \in Keys : \E i \in 1..MaxKeys : f[i] = k }

GetDiffList ==
    /\ prim = NotCalled
    /\ \E low_list \in Lists, high_list \in Lists :
         prim' = [fn |-> "get_diff_list", low |-> low_list, high |-> high_list,
                  ret |-> get_diff_list(low_list, high_list)]
    /\ UNCHANGED <<diff_to_sync, outcome, objs, pair, merge, pass, compared>>

GetDiffDict ==
    /\ prim = NotCalled
    /\ \E low_dict \in Dicts, high_dict \in Dicts, iter \in IterOrders :
         prim' = [fn |-> "get_diff_dict", low |-> low_dict, high |-> high_dict,
                  ret |-> get_diff_dict(low_dict, high_dict, iter)]
    /\ UNCHANGED <<diff_to_sync, outcome, objs, pair, merge, pass, compared>>

NextPrim == GetDiffList \/ GetDiffDict

SpecPrim == Init /\ [][NextPrim]_vars

----------------------------------------------------------------------------
(* get_sync_state(low_side_client, high_side_client), one add_obj a step *)

\* the records a side may hold: the first or the last identity with every
\* attribute at its default, and the first identity with one attribute
\* changed, the first one of the class or, for a job, its status
ClientRecords(cat) ==
    { [cat |-> cat, id |-> i, attrs |-> BaseAttrs(cat)] : i \in {1, MaxId} }
    \cup { [cat |-> cat, id |-> 1,
            attrs |-> [BaseAttrs(cat) EXCEPT ![a] = ChangedVal(cat, a)]] :
              a \in {AttrSeq(cat)[j] : j \in {1} \cap DOMAIN AttrSeq(cat)}
                    \cup (IF cat = "Job" THEN {"status"} ELSE {}) }

\* a dict as the list of its items in insertion order
contains(d, key) == \E k \in 1..Len(d) : d[k].key = key
lookup(d, key) == d[CHOOSE k \in 1..Len(d) : d[k].key = key].value

\* dictify = lambda obj_list: {obj.id: obj for obj in obj_list}
dictify(obj_list) ==
    LET d[n \in 0..Len(obj_list)] ==
            IF n = 0 THEN << >>
            ELSE LET obj == obj_list[n]
                     item == [key |-> obj.id, value |-> obj]
                 IN  IF contains(d[n-1], obj.id)
                     THEN [k \in 1..Len(d[n-1]) |->
                             IF d[n-1][k].key = obj.id THEN item ELSE d[n-1][k]]
                     ELSE Append(d[n-1], item)
    IN  d[Len(obj_list)]

\* a call sync_state.add_obj(low_obj, high_obj) the pass makes
AddObjCall(low_obj, high_obj) == [low |-> low_obj, high |-> high_obj]

\* the loops over the low side (projects, requests, code): the add_obj calls
\* they make, in order
low_side_calls_dropping_high(low_objs, high_objs) ==
    [k \in 1..Len(low_objs) |-> AddObjCall(low_objs[k].value, NoneObj)]

low_side_calls(low_objs, high_objs) ==
    [k \in 1..Len(low_objs) |->
        LET obj == low_objs[k].value
        IN  IF contains(high_objs, obj.id)
            THEN AddObjCall(obj, lookup(high_objs, obj.id))
            ELSE AddObjCall(obj, NoneObj)]

\* the loop over the high side's logs
log_calls(low_side_logs, high_side_logs) ==
    [k \in 1..Len(high_side_logs) |->
        LET log == high_side_logs[k].value
        IN  IF contains(low_side_logs, log.id)
            THEN AddObjCall(lookup(low_side_logs, log.id), log)
            ELSE AddObjCall(NoneObj, log)]

\* the loop over the high side's jobs: the job, then its result when it has
\* one
job_calls_without_results(low_side_jobs, high_side_jobs) ==
    [k \in 1..Len(high_side_jobs) |->
        LET job == high_side_jobs[k].value
        IN  IF contains(low_side_jobs, job.id)
            THEN AddObjCall(lookup(low_side_jobs, job.id), job)
            ELSE AddObjCall(NoneObj, job)]

job_calls(low_side_jobs, high_side_jobs) ==
    LET calls[n \in 0..Len(high_side_jobs)] ==
            IF n = 0 THEN << >>
            ELSE LET job == high_side_jobs[n].value
                 IN  calls[n-1]
                     \o << IF contains(low_side_jobs, job.id)
                           THEN AddObjCall(lookup(low_side_jobs, job.id), job)
                           ELSE AddObjCall(NoneObj, job) >>
                     \o (IF ~IsActionDataEmpty(getattr(job, "result"))
                         THEN << AddObjCall(NoneObj, getattr(job, "result")) >>
                         ELSE << >>)
    IN  calls[Len(high_side_jobs)]

\* every add_obj call of get_sync_state on the two sides, in order
sync_calls_jobs_first(low, high) ==
    job_calls(dictify(low["Job"]), dictify(high["Job"]))
    \o low_side_calls(dictify(low["Project"]), dictify(high["Project"]))
    \o low_side_calls(dictify(low["Request"]), dictify(high["Request"]))
    \o low_side_calls(dictify(low["UserCode"]), dictify(high["UserCode"]))
    \o log_calls(dictify(low["SyftLog"]), dictify(high["SyftLog"]))

sync_calls(low, high) ==
    low_side_calls(dictify(low["Project"]), dictify(high["Project"]))
    \o low_side_calls(dictify(low["Request"]), dictify(high["Request"]))
    \o low_side_calls(dictify(low["UserCode"]), dictify(high["UserCode"]))
    \o job_calls(dictify(low["Job"]), dictify(high["Job"]))
    \o log_calls(dictify(low["SyftLog"]), dictify(high["SyftLog"]))

Calls == sync_calls(low_side_client, high_side_client)

\* how many records the two sides hold
Held ==
    LET n[i \in 0..Len(SyncTypes)] ==
            IF i = 0 THEN 0
            ELSE n[i-1] + Len(low_side_client[SyncTypes[i]])
                        + Len(high_side_client[SyncTypes[i]])
    IN  n[Len(SyncTypes)]

HasId(obj_list, i) == \E k \in 1..Len(obj_list) : obj_list[k].id = i

\* a side comes to hold one more record, before the pass
LowSideHolds ==
    /\ sync = NotCalled
    /\ Held < MaxRecords
    /\ \E i \in 1..Len(SyncTypes) : \E obj \in ClientRecords(SyncTypes[i]) :
         /\ ~HasId(low_side_client[obj.cat], obj.id)
         /\ low_side_client' =
              [low_side_client EXCEPT ![obj.cat] = Append(@, obj)]
    /\ UNCHANGED <<diff_to_sync, outcome, objs, pair, merge, prim,
                   high_side_client, sync, compared>>

HighSideHolds ==
    /\ sync = NotCalled
    /\ Held < MaxRecords
    /\ \E i \in 1..Len(SyncTypes) : \E obj \in ClientRecords(SyncTypes[i]) :
         /\ ~HasId(high_side_client[obj.cat], obj.id)
         /\ high_side_client' =
              [high_side_client EXCEPT ![obj.cat] = Append(@, obj)]
    /\ UNCHANGED <<diff_to_sync, outcome, objs, pair, merge, prim,
                   low_side_client, sync, compared>>

\* sync_state = State()
GetSyncStateEnter ==
    /\ sync = NotCalled
    /\ sync' = [status |-> "running", done |-> 0, exc |-> ""]
    /\ diff_to_sync' = << >>
    /\ UNCHANGED <<outcome, objs, pair, merge, prim,
                   low_side_client, high_side_client, compared>>

\* the next sync_state.add_obj of the loops; an exception it raises leaves
\* get_sync_state
GetSyncStateAddObj ==
    /\ sync.status = "running"
    /\ sync.done < Len(Calls)
    /\ LET c == Calls[sync.done + 1]
           r == add_obj(diff_to_sync, c.low, c.high)
       IN  /\ diff_to_sync' = r.value
           /\ outcome' = Status(r)
           /\ sync' = IF r.raised
                      THEN [status |-> "raised", done |-> sync.done, exc |-> r.exc]
                      ELSE [sync EXCEPT !.done = @ + 1]
    /\ UNCHANGED <<objs, pair, merge, prim, low_side_client, high_side_client,
                   compared>>

\* return sync_state
GetSyncStateReturn ==
    /\ sync.status = "running"
    /\ sync.done = Len(Calls)
    /\ sync' = [sync EXCEPT !.status = "returned"]
    /\ UNCHANGED <<diff_to_sync, outcome, objs, pair, merge, prim,
                   low_side_client, high_side_client, compared>>

\* objs_to_sync() on the State that get_sync_state returned
ReturnedObjsToSync ==
    /\ sync.status = "returned"
    /\ objs = NotCalled
    /\ ObjsToSync

NextSync ==
    \/ LowSideHolds
    \/ HighSideHolds
    \/ GetSyncStateEnter
    \/ GetSyncStateAddObj
    \/ GetSyncStateReturn
    \/ ReturnedObjsToSync

SpecSync == Init /\ [][NextSync]_vars

----------------------------------------------------------------------------
(* Vocabulary of the properties *)

IsSupported(cat) == \E i \in 1..Len(SupportedTypes) : cat = SupportedTypes[i]

BothAbsent(low_obj, high_obj) == IsNone(low_obj) /\ IsNone(high_obj)
BothPresent(low_obj, high_obj) == ~IsNone(low_obj) /\ ~IsNone(high_obj)
OneAbsent(low_obj, high_obj) == IsNone(low_obj) # IsNone(high_obj)

\* the side of a one-sided pair that is there
Present(low_obj, high_obj) == IF IsNone(low_obj) THEN high_obj ELSE low_obj

StoredDiffs == {diff_to_sync[k] : k \in 1..Len(diff_to_sync)}

\* the elements of a list
Elems(list) == {list[k] : k \in 1..Len(list)}

\* add_obj has been called on pair
Classified == pair.drawn /\ outcome.status # "not called"

----------------------------------------------------------------------------
(* C1 *)

\* C1: after any sequence of add_obj calls, every Diff in diff_to_sync has
\* exactly one side absent iff its merge_state is NEW, both sides present
\* iff its merge_state is SAME or DIFF, never both sides absent, and no
\* merge_state other than NEW, SAME, DIFF.
C1_PresenceMatchesMergeState ==
    \A d \in StoredDiffs :
        /\ OneAbsent(d.low_obj, d.high_obj) <=> d.merge_state = "NEW"
        /\ BothPresent(d.low_obj, d.high_obj) <=> d.merge_state \in {"SAME", "DIFF"}
        /\ ~BothAbsent(d.low_obj, d.high_obj)
        /\ d.merge_state \in {"NEW", "SAME", "DIFF"}

\* a state holding a one-sided Diff and a two-sided Diff
C1_Witness ==
    /\ \E d \in StoredDiffs : OneAbsent(d.low_obj, d.high_obj)
    /\ \E d \in StoredDiffs : BothPresent(d.low_obj, d.high_obj)

----------------------------------------------------------------------------
(* C2 *)

\* C2: classifying (r, None) or (None, r), r of a supported category, appends
\* exactly one Diff, with merge_state NEW and an empty diff_list, and calls
\* no comparator.
C2_OneSidedIsNew ==
    ( /\ Classified
      /\ OneAbsent(pair.low, pair.high)
      /\ IsSupported(Present(pair.low, pair.high).cat) )
    => /\ outcome.status = "returned"
       /\ outcome.invoked = "None"
       /\ Len(diff_to_sync) = 1
       /\ diff_to_sync[1].low_obj = pair.low
       /\ diff_to_sync[1].high_obj = pair.high
       /\ diff_to_sync[1].merge_state = "NEW"
       /\ diff_to_sync[1].diff_list = << >>

\* (None, r) has been classified, r an ActionObject
C2_Witness ==
    /\ Classified
    /\ IsNone(pair.low)
    /\ pair.high.cat = "ActionObject"
    /\ Len(diff_to_sync) = 1

----------------------------------------------------------------------------
(* C3 *)

\* C3: classifying (None, None) fails with an error on every path: add_obj
\* raises and appends nothing, and get_merge_state raises instead of
\* returning a value.
C3_BothAbsentAlwaysFails ==
    (pair.drawn /\ BothAbsent(pair.low, pair.high))
    => /\ outcome.status # "not called"
            => (outcome.status = "raised" /\ diff_to_sync = << >>)
       /\ merge.status # "not called" => merge.status = "raised"

----------------------------------------------------------------------------
(* C4 *)

\* C4: a Diff of two present records carries the list its category's
\* comparator returns for them, with merge_state SAME if that list is empty
\* and DIFF otherwise; so every stored Diff has a non-empty diff_list iff its
\* merge_state is DIFF.
C4_MergeStateFollowsDiffList ==
    \A d \in StoredDiffs :
        /\ BothPresent(d.low_obj, d.high_obj) =>
             LET ret == call(func_dict(d.low_obj.cat), d.low_obj, d.high_obj)
             IN  /\ ~ret.raised
                 /\ d.diff_list = ret.value
                 /\ ret.value = << >> => d.merge_state = "SAME"
                 /\ ret.value # << >> => d.merge_state = "DIFF"
        /\ d.diff_list # << >> <=> d.merge_state = "DIFF"

\* a state holding a SAME Diff and a DIFF Diff
C4_Witness ==
    /\ \E d \in StoredDiffs : d.merge_state = "SAME" /\ d.diff_list = << >>
    /\ \E d \in StoredDiffs : d.merge_state = "DIFF" /\ d.diff_list # << >>

----------------------------------------------------------------------------
(* C5 *)

\* C5: for every record r of a supported category, classifying (r, r)
\* succeeds with a Diff whose merge_state is SAME and whose diff_list is
\* empty.
C5_IdenticalIsSame ==
    ( /\ Classified
      /\ BothPresent(pair.low, pair.high)
      /\ pair.low = pair.high
      /\ IsSupported(pair.low.cat) )
    => /\ outcome.status = "returned"
       /\ Len(diff_to_sync) = 1
       /\ diff_to_sync[1].merge_state = "SAME"
       /\ diff_to_sync[1].diff_list = << >>


----------------------------------------------------------------------------
(* C6 *)

\* the plain attributes the comparator written for a class compares
ScalarAttrs(cat) ==
    CASE cat = "Request" -> request_basic_attrs
      [] cat = "UserCode" -> user_code_basic_attrs
      [] cat = "Job" -> job_basic_attrs
      [] cat = "SyftLog" -> log_basic_attrs
      [] cat = "ActionObject" -> action_object_basic_attrs
      [] OTHER -> << >>

\* the attributes on which two records of one class differ
DifferingAttrs(low_obj, high_obj) ==
    {a \in AttrNames(low_obj.cat) : getattr(low_obj, a) # getattr(high_obj, a)}

\* C6: for two copies of a record with the same identity that differ in
\* exactly one scalar field, classification yields merge_state DIFF and a
\* diff_list of exactly one entry, which names that field and carries the
\* two sides' values.
C6_OneFieldOneDifference ==
    \A a \in Elems(ScalarAttrs(pair.low.cat)) :
        ( /\ Classified
          /\ BothPresent(pair.low, pair.high)
          /\ IsSupported(pair.low.cat)
          /\ pair.low.id = pair.high.id
          /\ DifferingAttrs(pair.low, pair.high) = {a} )
        => /\ outcome.status = "returned"
           /\ Len(diff_to_sync) = 1
           /\ diff_to_sync[1].merge_state = "DIFF"
           /\ diff_to_sync[1].diff_list =
                << DiffAttr(a, getattr(pair.low, a), getattr(pair.high, a)) >>

----------------------------------------------------------------------------
(* C7 *)

\* C7: classifying two present records of a supported category whose
\* identities differ fails with the identity mismatch error and appends no
\* Diff.
C7_IdentityMismatchFails ==
    ( /\ Classified
      /\ BothPresent(pair.low, pair.high)
      /\ IsSupported(pair.low.cat)
      /\ pair.low.id # pair.high.id )
    => /\ outcome.status = "raised"
       /\ outcome.exc = NotSameIdError
       /\ diff_to_sync = << >>

----------------------------------------------------------------------------
(* C8 *)

\* C8: objs_to_sync returns, in state order, one element per Diff whose
\* merge_state is NEW, namely the side of that Diff that is present; nothing
\* comes from a SAME or DIFF Diff and the string "Error" is never returned.
C8_ObjsToSyncIsTheNewObjects ==
    objs.status = "returned" =>
        LET new_diffs == SelectSeq(diff_to_sync, LAMBDA d : d.merge_state = "NEW")
        IN  /\ Len(objs.value) = Len(new_diffs)
            /\ \A k \in 1..Len(new_diffs) :
                  /\ objs.value[k] \in {new_diffs[k].low_obj, new_diffs[k].high_obj}
                  /\ ~IsNone(objs.value[k])
            /\ ErrorStr \notin Elems(objs.value)

\* objs_to_sync has returned one object from a state that holds a one-sided
\* low-side Diff and a two-sided Diff
C8_Witness ==
    /\ objs.status = "returned"
    /\ Len(objs.value) = 1
    /\ \E d \in StoredDiffs : d.merge_state = "NEW" /\ IsNone(d.high_obj)
    /\ \E d \in StoredDiffs : d.merge_state \in {"SAME", "DIFF"}

----------------------------------------------------------------------------
(* C9 *)

Min(a, b) == IF a < b THEN a ELSE b

\* list is strictly increasing
Increasing(list) == \A j, k \in 1..Len(list) : j < k => list[j] < list[k]

\* C9: with n = min(len(low), len(high)), get_diff_list returns as diff_ids
\* exactly the indices i in [0, n) with low[i] != high[i], as new_low_ids
\* [n, len(low)) when low is longer and nothing otherwise, as new_high_ids
\* [n, len(high)) when high is longer and nothing otherwise.
C9_GetDiffListIsPrefixAligned ==
    prim.fn = "get_diff_list" =>
        LET n == Min(Len(prim.low), Len(prim.high))
        IN  /\ Elems(prim.ret[1]) = {i \in 0..(n - 1) : prim.low[i + 1] # prim.high[i + 1]}
            /\ Increasing(prim.ret[1])
            /\ Elems(prim.ret[2]) = {i \in 0..(Len(prim.low) - 1) : i >= n}
            /\ Increasing(prim.ret[2])
            /\ Elems(prim.ret[3]) = {i \in 0..(Len(prim.high) - 1) : i >= n}
            /\ Increasing(prim.ret[3])

\* get_diff_list of a list of three and a list of two that differ at index 0
\* (the shape of ([1,2,3], [9,2])) has returned ([0], [2], [])
C9_Witness ==
    /\ prim.fn = "get_diff_list"
    /\ prim.low = << 0, 1, 0 >>
    /\ prim.high = << 1, 1 >>
    /\ prim.ret = << << 0 >>, << 2 >>, << >> >>

----------------------------------------------------------------------------
(* C10 *)

\* no element occurs twice in list
NoRepeat(list) == \A j, k \in 1..Len(list) : list[j] = list[k] => j = k

\* C10: get_diff_dict returns as new_low_keys the keys of low not in high, as
\* new_high_keys the keys of high not in low, as diff_keys the common keys
\* whose values differ; the three lists are pairwise disjoint and hold each
\* key at most once.
C10_GetDiffDictIsKeySetDifference ==
    prim.fn = "get_diff_dict" =>
        /\ Elems(prim.ret[2]) = DOMAIN prim.low \ DOMAIN prim.high
        /\ Elems(prim.ret[3]) = DOMAIN prim.high \ DOMAIN prim.low
        /\ Elems(prim.ret[1]) =
              {k \in DOMAIN prim.low \cap DOMAIN prim.high : prim.low[k] # prim.high[k]}
        /\ Elems(prim.ret[1]) \cap Elems(prim.ret[2]) = {}
        /\ Elems(prim.ret[1]) \cap Elems(prim.ret[3]) = {}
        /\ Elems(prim.ret[2]) \cap Elems(prim.ret[3]) = {}
        /\ \A i \in 1..3 : NoRepeat(prim.ret[i])

\* get_diff_dict of two dicts of the shape {a:1, b:2} and {b:2, c:3} has
\* returned ([], [a], [c])
C10_Witness ==
    /\ prim.fn = "get_diff_dict"
    /\ DOMAIN prim.low = {1, 2}
    /\ DOMAIN prim.high = {2, 3}
    /\ prim.low[2] = prim.high[2]
    /\ prim.ret = << << >>, << 1 >>, << 3 >> >>

----------------------------------------------------------------------------
(* Properties of the reconciliation pass *)

\* the record of identity i in a collection, None when there is none
RecordOf(obj_list, i) ==
    IF HasId(obj_list, i) THEN lookup(dictify(obj_list), i) ELSE NoneObj

\* the State that get_sync_state returned pairs the low-side record low_obj
\* with its high-side counterpart, as NEW when there is none
LowIsPaired(low_obj) ==
    LET high_obj == RecordOf(high_side_client[low_obj.cat], low_obj.id)
    IN  \E d \in StoredDiffs :
           /\ d.low_obj = low_obj
           /\ d.high_obj = high_obj
           /\ IsNone(high_obj) => d.merge_state = "NEW"

\* the same from the high side
HighIsPaired(high_obj) ==
    LET low_obj == RecordOf(low_side_client[high_obj.cat], high_obj.id)
    IN  \E d \in StoredDiffs :
           /\ d.low_obj = low_obj
           /\ d.high_obj = high_obj
           /\ IsNone(low_obj) => d.merge_state = "NEW"

LowSideRecords(cat) ==
    {low_side_client[cat][k] : k \in 1..Len(low_side_client[cat])}
HighSideRecords(cat) ==
    {high_side_client[cat][k] : k \in 1..Len(high_side_client[cat])}

JobsOnly ==
    \A cat \in {"Project", "Request", "UserCode", "SyftLog"} :
        low_side_client[cat] = << >> /\ high_side_client[cat] = << >>

\* the positions in diff_to_sync of the Diffs of class Job about identity i
JobDiffs(i) ==
    { k \in 1..Len(diff_to_sync) :
        /\ diff_to_sync[k].obj_type = "Job"
        /\ i = Present(diff_to_sync[k].low_obj, diff_to_sync[k].high_obj).id }

\* the State of a pass over jobs holds, for a job on both sides with
\* different statuses, one Diff, a DIFF that names the status, and for a job
\* on the high side only one Diff, a NEW without low side
JobsAreClassified ==
    \A high_job \in HighSideRecords("Job") :
        LET low_job == RecordOf(low_side_client["Job"], high_job.id)
        IN  /\ Cardinality(JobDiffs(high_job.id)) = 1
            /\ \A k \in JobDiffs(high_job.id) :
                  LET d == diff_to_sync[k]
                  IN  /\ d.low_obj = low_job /\ d.high_obj = high_job
                      /\ IsNone(low_job) => d.merge_state = "NEW"
                      /\ (~IsNone(low_job)
                          /\ getattr(low_job, "status") # getattr(high_job, "status"))
                         => /\ d.merge_state = "DIFF"
                            /\ \E n \in 1..Len(d.diff_list) :
                                  /\ d.diff_list[n].attr_name = "status"
                                  /\ d.diff_list[n].low_attr = getattr(low_job, "status")
                                  /\ d.diff_list[n].high_attr = getattr(high_job, "status")

IsHighOnly(job) == ~HasId(low_side_client["Job"], job.id)

\* the high-only jobs, in the order of the high side
HighOnlyJobs == SelectSeq(high_side_client["Job"], IsHighOnly)

\* the high-only jobs, each high-side job being followed by its result when
\* it has one
HighOnlyJobsAndResults ==
    LET high_jobs == high_side_client["Job"]
        out[n \in 0..Len(high_jobs)] ==
            IF n = 0 THEN << >>
            ELSE out[n-1]
                 \o (IF IsHighOnly(high_jobs[n]) THEN << high_jobs[n] >> ELSE << >>)
                 \o (IF IsActionDataEmpty(getattr(high_jobs[n], "result"))
                     THEN << >> ELSE << getattr(high_jobs[n], "result") >>)
    IN  out[Len(high_jobs)]

----------------------------------------------------------------------------
(* C13 *)

\* the class name add_obj decides by
DecidingClass == Present(pair.low, pair.high).cat

\* no comparator is registered for the class: get_type does not know it, or
\* func_dict maps it to None
HasNoComparator(cat) == ~IsSupported(cat) \/ func_dict(cat) = "None"

\* add_obj raised and appended nothing
Failed == outcome.status = "raised" /\ diff_to_sync = << >>

\* C13 as stated: add_obj on a pair with a record of a class without
\* registered comparator always fails and appends no Diff
C13_NoComparatorAlwaysFails ==
    (Classified /\ ~BothAbsent(pair.low, pair.high)
                /\ HasNoComparator(DecidingClass)) => Failed

\* C13: add_obj raises a TypeError and appends no Diff on a pair with a
\* record of a class get_type does not know, and on a pair of two records of
\* a class that func_dict maps to None; on one record of such a class and
\* None it appends a NEW Diff
C13_NoComparatorFailsWhenNeeded ==
    (Classified /\ ~BothAbsent(pair.low, pair.high)) =>
        /\ ~IsSupported(DecidingClass)
              => Failed /\ outcome.exc = RaiseNotImplemented
        /\ (IsSupported(DecidingClass) /\ func_dict(DecidingClass) = "None"
            /\ BothPresent(pair.low, pair.high))
              => Failed /\ outcome.exc = NoneNotCallable
        /\ (IsSupported(DecidingClass) /\ func_dict(DecidingClass) = "None"
            /\ OneAbsent(pair.low, pair.high))
              => /\ outcome.status = "returned"
                 /\ Len(diff_to_sync) = 1
                 /\ diff_to_sync[1].merge_state = "NEW"

\* add_obj was called on two projects and raised
C13_Witness ==
    /\ Classified
    /\ BothPresent(pair.low, pair.high)
    /\ DecidingClass = "Project"
    /\ outcome.exc = NoneNotCallable

----------------------------------------------------------------------------
(* C14 *)

\* every record of a class either side holds
HeldRecords(cat) == LowSideRecords(cat) \cup HighSideRecords(cat)

\* diff_to_sync holds, in order, one Diff for each of the first n calls of
\* the pass
HoldsCalls(n) ==
    /\ Len(diff_to_sync) = n
    /\ \A k \in 1..n : /\ diff_to_sync[k].low_obj = Calls[k].low
                       /\ diff_to_sync[k].high_obj = Calls[k].high

\* C14: get_sync_state either returns a State that holds one Diff for every
\* add_obj call of its loops, or is left by the exception of an add_obj call
\* and returns no State, so that objs_to_sync cannot be called; an add_obj
\* call that raises, on any two held records of a class or None, leaves diff_to_sync
\* as it was, hence as the calls before the failing one built it
C14_PassIsAllOrNothing ==
    /\ sync.status = "returned" => HoldsCalls(Len(Calls))
    /\ sync.status = "raised" =>
          /\ sync.done < Len(Calls)
          /\ HoldsCalls(sync.done)
          /\ add_obj(diff_to_sync, Calls[sync.done + 1].low,
                     Calls[sync.done + 1].high).raised
          /\ objs = NotCalled
    /\ sync.status # "not called" =>
          \A i \in 1..Len(SyncTypes) :
          \A low_obj \in Optional(HeldRecords(SyncTypes[i])),
             high_obj \in Optional(HeldRecords(SyncTypes[i])) :
              LET r == add_obj(diff_to_sync, low_obj, high_obj)
              IN  r.raised => r.value = diff_to_sync

\* a pass that was left by the exception of its second add_obj call
C14_Witness ==
    /\ sync.status = "raised"
    /\ sync.done = 1
    /\ Len(diff_to_sync) = 1

----------------------------------------------------------------------------
(* C15 *)

\* the place of a class in the order of the loops of get_sync_state; the
\* result of a job is added in the loop over the jobs
LoopOf(obj_type) ==
    CASE obj_type = "Project" -> 1
      [] obj_type = "Request" -> 2
      [] obj_type = "UserCode" -> 3
      [] obj_type \in {"Job", "ActionObject"} -> 4
      [] obj_type = "SyftLog" -> 5

\* diff_to_sync' is diff_to_sync with one more Diff at its end
AppendsOne ==
    /\ Len(diff_to_sync') = Len(diff_to_sync) + 1
    /\ \A k \in 1..Len(diff_to_sync) : diff_to_sync'[k] = diff_to_sync[k]

\* C15: while get_sync_state runs, a step in which add_obj succeeds makes
\* diff_to_sync one longer, with the Diff of the pair it was called on last
\* and every earlier entry where it was, and every other step leaves
\* diff_to_sync as it is; at any time the Diffs are in the order projects,
\* requests, code, jobs (with their results), logs
C15_AppendOnlyInCategoryOrder ==
    /\ [][sync.status = "running" =>
            IF sync'.status = "running" /\ sync'.done = sync.done + 1
            THEN /\ AppendsOne
                 /\ diff_to_sync'[Len(diff_to_sync')].low_obj = Calls[sync'.done].low
                 /\ diff_to_sync'[Len(diff_to_sync')].high_obj = Calls[sync'.done].high
            ELSE diff_to_sync' = diff_to_sync]_vars
    /\ [](sync.status # "not called" =>
            \A j, k \in 1..Len(diff_to_sync) :
                j < k => LoopOf(diff_to_sync[j].obj_type)
                            <= LoopOf(diff_to_sync[k].obj_type))

\* a returned pass that made Diffs of three classes
C15_Witness ==
    /\ sync.status = "returned"
    /\ Len(diff_to_sync) = 3
    /\ LoopOf(diff_to_sync[1].obj_type) < LoopOf(diff_to_sync[2].obj_type)
    /\ LoopOf(diff_to_sync[2].obj_type) < LoopOf(diff_to_sync[3].obj_type)

----------------------------------------------------------------------------
(* C16 *)

\* the place of an attr_name in the output of get_diff_request: the scalar
\* attributes as in basic_attrs, then "change", then "history"
RequestRank(attr_name) ==
    IF attr_name = "change" THEN Len(request_basic_attrs) + 1
    ELSE IF attr_name = "history" THEN Len(request_basic_attrs) + 2
    ELSE CHOOSE n \in 1..Len(request_basic_attrs) : request_basic_attrs[n] = attr_name

\* add_obj compared two requests and returned
RequestsCompared ==
    /\ Classified
    /\ BothPresent(pair.low, pair.high)
    /\ pair.low.cat = "Request"
    /\ outcome.status = "returned"

\* diff_list has an entry attr_name for the lists low_attr and high_attr
\* exactly when get_diff_list returns some index for them, and the entry
\* holds the two lists and the three lists of indices
ListEntryIsRight(diff_list, attr_name, low_attr, high_attr) ==
    LET ids == get_diff_list(low_attr, high_attr)
    IN  /\ (\E n \in 1..Len(diff_list) : diff_list[n].attr_name = attr_name)
             <=> (ids[1] # << >> \/ ids[2] # << >> \/ ids[3] # << >>)
        /\ \A n \in 1..Len(diff_list) :
              diff_list[n].attr_name = attr_name =>
                  /\ diff_list[n].low_attr = low_attr
                  /\ diff_list[n].high_attr = high_attr
                  /\ diff_list[n].diff_ids = ids[1]
                  /\ diff_list[n].new_low_ids = ids[2]
                  /\ diff_list[n].new_high_ids = ids[3]

\* C16: the diff_list of two requests names each attribute at most once, in
\* the order of basic_attrs followed by "change" and then "history"; it has
\* a scalar entry for exactly the basic attributes that differ, and a list
\* entry for changes, and for history, exactly when one of the three index
\* lists of get_diff_list is not empty, holding all three
C16_RequestDiffListOrder ==
    RequestsCompared =>
        LET diff_list == diff_to_sync[1].diff_list
        IN  /\ \A m, n \in 1..Len(diff_list) :
                  m < n => RequestRank(diff_list[m].attr_name)
                              < RequestRank(diff_list[n].attr_name)
            /\ \A k \in 1..Len(request_basic_attrs) :
                  (\E n \in 1..Len(diff_list) :
                      diff_list[n].attr_name = request_basic_attrs[k])
                  <=> getattr(pair.low, request_basic_attrs[k])
                        # getattr(pair.high, request_basic_attrs[k])
            /\ ListEntryIsRight(diff_list, "change", getattr(pair.low, "changes"),
                                getattr(pair.high, "changes"))
            /\ ListEntryIsRight(diff_list, "history", getattr(pair.low, "history"),
                                getattr(pair.high, "history"))

\* two requests were compared whose changes differ only in length and whose
\* histories differ: an entry for the changes, then one for the history
C16_Witness ==
    /\ RequestsCompared
    /\ Len(diff_to_sync[1].diff_list) = 2
    /\ diff_to_sync[1].diff_list[1].attr_name = "change"
    /\ diff_to_sync[1].diff_list[1].diff_ids = << >>
    /\ diff_to_sync[1].diff_list[2].attr_name = "history"

----------------------------------------------------------------------------
(* C17 *)

NoIndices == << << >>, << >>, << >> >>

\* the comparator has an entry attr_name in what it returned
Emitted(attr_name) ==
    \E n \in 1..Len(compared.value) : compared.value[n].attr_name = attr_name

\* C17: every entry of the list a comparator returns, a DiffAttr or a
\* DiffList, the status entry of get_diff_user_code included, holds a
\* low_attr and a high_attr that differ; for the changes and the history of
\* two requests get_diff_list returns three empty lists exactly when the two
\* lists are equal, and the DiffList is there exactly when they differ
C17_EmittedDifferencesDiffer ==
    compared.status = "returned" =>
        /\ \A n \in 1..Len(compared.value) :
              compared.value[n].low_attr # compared.value[n].high_attr
        /\ compared.fn = "get_diff_request" =>
              /\ (get_diff_list(getattr(pair.low, "changes"),
                                getattr(pair.high, "changes")) = NoIndices)
                    <=> getattr(pair.low, "changes") = getattr(pair.high, "changes")
              /\ Emitted("change")
                    <=> getattr(pair.low, "changes") # getattr(pair.high, "changes")
              /\ (get_diff_list(getattr(pair.low, "history"),
                                getattr(pair.high, "history")) = NoIndices)
                    <=> getattr(pair.low, "history") = getattr(pair.high, "history")
              /\ Emitted("history")
                    <=> getattr(pair.low, "history") # getattr(pair.high, "history")

\* get_diff_user_code returned the status entry for two codes whose first
\* statuses differ
C17_Witness ==
    /\ compared.status = "returned"
    /\ compared.fn = "get_diff_user_code"
    /\ Emitted("status")
    /\ getattr(pair.low, "status")[1] # getattr(pair.high, "status")[1]

----------------------------------------------------------------------------
(* C18 *)

\* the Diff that add_obj appends to a new State for the pair of diff
AloneDiff(diff) == add_obj(<< >>, diff.low_obj, diff.high_obj)

====
